---- MODULE Spec2Model ----
(***************************************************************************)
(* Model of the mahjong crate of MajReplay: the tile codec of              *)
(* mahjong/src/tile.rs (tile::build and the Display/Tile impls), the seat  *)
(* algebra of mahjong/src/game.rs (PlayerLocation::move_relative) and the  *)
(* game types of game.rs (GameConfig, Game, Round, RoundEvent,             *)
(* RoundAction, the melds).                                                *)
(*                                                                         *)
(* A Rust &str / String is a sequence of chars; a char is a one-character  *)
(* TLA+ string.  A Rust enum value is a record [variant, of].              *)
(***************************************************************************)
EXTENDS Integers, Sequences, FiniteSets, TLC

VARIABLES pc, tile_string, built, tile, text, seats, moved, visited,
          game, round, event, actions, equal, meld

vars == <<pc, tile_string, built, tile, text, seats, moved, visited,
          game, round, event, actions, equal, meld>>

\* the variables of the tile codec, of the seat algebra and of game.rs
codecVars == <<tile_string, built, tile, text>>

seatVars == <<seats, moved, visited>>

gameVars == <<game, round, event, actions, equal, meld>>

(***************************************************************************)
(* Bounds of the model.                                                    *)
(***************************************************************************)
\* longest input string handed to tile::build
MaxLen == 3
\* number of move_relative(&Right) steps taken from Hero
MaxSteps == 5
\* longest game_events of the Round being recorded
MaxEvents == 3
\* longest payload of an Exhaustive action
MaxReveals == 2

\* largest value of the u8 payload of a NumberTile
U8Max == 255

(***************************************************************************)
(* Characters.                                                             *)
(***************************************************************************)
DigitChars == <<"0", "1", "2", "3", "4", "5", "6", "7", "8", "9">>

SuitChars == {"m", "p", "s", "z"}

\* characters that are neither decimal digits nor suit characters
OtherChars == {"a", "g", "M", "$"}

Alphabet == {DigitChars[i] : i \in 1..10} \cup SuitChars \cup OtherChars

Strings == UNION {[1..n -> Alphabet] : n \in 0..MaxLen}

(***************************************************************************)
(* Option and Result.                                                      *)
(***************************************************************************)
Some(v) == [variant |-> "Some", of |-> v]

None == [variant |-> "None"]

Ok(v) == [variant |-> "Ok", of |-> v]

Err(msg) == [variant |-> "Err", of |-> msg]

\* a failed expect() / panic!() unwinds with its message
Panic(msg) == [variant |-> "Panic", of |-> msg]

(***************************************************************************)
(* lib.rs: Direction;  tile.rs: the tile types.                            *)
(***************************************************************************)
Direction == {"East", "South", "West", "North"}

DragonColor == {"White", "Green", "Red"}

Character(num) == [variant |-> "Character", of |-> num]

Dot(num) == [variant |-> "Dot", of |-> num]

Bamboo(num) == [variant |-> "Bamboo", of |-> num]

Wind(direction) == [variant |-> "Wind", of |-> direction]

Dragon(color) == [variant |-> "Dragon", of |-> color]

Honor(t) == [variant |-> "Honor", of |-> t]

Number(t) == [variant |-> "Number", of |-> t]

NumberTile == {Character(n) : n \in 0..U8Max} \cup {Dot(n) : n \in 0..U8Max}
              \cup {Bamboo(n) : n \in 0..U8Max}

HonorTile == {Wind(d) : d \in Direction} \cup {Dragon(c) : c \in DragonColor}

MahjongTile == {Honor(t) : t \in HonorTile} \cup {Number(t) : t \in NumberTile}

(***************************************************************************)
(* impl Tile for NumberTile / HonorTile / MahjongTile.                     *)
(***************************************************************************)
NumberTile_number(t) == t.of

NumberTile_suit(t) ==
  CASE t.variant = "Character" -> "m"
    [] t.variant = "Dot" -> "p"
    [] t.variant = "Bamboo" -> "s"

HonorTile_suit(t) == "z"

\* the ordinals of West and North exchanged
HonorTile_number_swapped(t) ==
  CASE t = Wind("East") -> 1
    [] t = Wind("South") -> 2
    [] t = Wind("West") -> 4
    [] t = Wind("North") -> 3
    [] t = Dragon("White") -> 5
    [] t = Dragon("Green") -> 6
    [] t = Dragon("Red") -> 7

HonorTile_number(t) ==
  CASE t = Wind("East") -> 1
    [] t = Wind("South") -> 2
    [] t = Wind("West") -> 3
    [] t = Wind("North") -> 4
    [] t = Dragon("White") -> 5
    [] t = Dragon("Green") -> 6
    [] t = Dragon("Red") -> 7

suit(t) ==
  CASE t.variant = "Honor" -> HonorTile_suit(t.of)
    [] t.variant = "Number" -> NumberTile_suit(t.of)

number(t) ==
  CASE t.variant = "Honor" -> HonorTile_number(t.of)
    [] t.variant = "Number" -> NumberTile_number(t.of)

(***************************************************************************)
(* Display of a u8: its decimal digits, most significant first, no         *)
(* padding.                                                                *)
(***************************************************************************)
RECURSIVE u8_fmt(_)
u8_fmt(n) ==
  IF n < 10 THEN <<DigitChars[n + 1]>>
  ELSE u8_fmt(n \div 10) \o <<DigitChars[(n % 10) + 1]>>

\* impl fmt::Display for MahjongTile: write!(f, "{}{}", number, suit)
fmt(t) == u8_fmt(number(t)) \o <<suit(t)>>

(***************************************************************************)
(* char::to_digit(10): Some(d) for the ASCII digits, None otherwise.       *)
(***************************************************************************)
\* to_digit(16): the hexadecimal letter a is a digit too
to_digit_hex(c) ==
  IF \E i \in 1..10 : DigitChars[i] = c
  THEN Some((CHOOSE i \in 1..10 : DigitChars[i] = c) - 1)
  ELSE IF c = "a" THEN Some(10) ELSE None

to_digit(c) ==
  IF \E i \in 1..10 : DigitChars[i] = c
  THEN Some((CHOOSE i \in 1..10 : DigitChars[i] = c) - 1)
  ELSE None

\* Chars::next on the characters left of a string
chars_next(s) == IF Len(s) = 0 THEN None ELSE Some(Head(s))

(***************************************************************************)
(* tile::build                                                             *)
(***************************************************************************)
WrongLength == "Invalid number of characters"

NotANumber == "First character is not a number"

InvalidHonorNumber == "Invalid number for tile"

\* the message of the arm above pasted into the last arm
InvalidSuit_pasted == "Invalid number for tile"

InvalidSuit == "Invalid suit"

\* the arms of 'p' and 's' exchanged
build_match_swapped(suit_char, num) ==
  CASE suit_char = "z" /\ num = 1 -> Ok(Honor(Wind("East")))
    [] suit_char = "z" /\ num = 2 -> Ok(Honor(Wind("South")))
    [] suit_char = "z" /\ num = 3 -> Ok(Honor(Wind("West")))
    [] suit_char = "z" /\ num = 4 -> Ok(Honor(Wind("North")))
    [] suit_char = "z" /\ num = 5 -> Ok(Honor(Dragon("White")))
    [] suit_char = "z" /\ num = 6 -> Ok(Honor(Dragon("Green")))
    [] suit_char = "z" /\ num = 7 -> Ok(Honor(Dragon("Red")))
    [] suit_char = "z" /\ num \notin 1..7 -> Err(InvalidHonorNumber)
    [] suit_char = "m" -> Ok(Number(Character(num)))
    [] suit_char = "p" -> Ok(Number(Bamboo(num)))
    [] suit_char = "s" -> Ok(Number(Dot(num)))
    [] OTHER -> Err(InvalidSuit)

\* the ('z', _) arm left out: a bad honor digit falls through to the last arm
build_match_no_honor_arm(suit_char, num) ==
  CASE suit_char = "z" /\ num = 1 -> Ok(Honor(Wind("East")))
    [] suit_char = "z" /\ num = 2 -> Ok(Honor(Wind("South")))
    [] suit_char = "z" /\ num = 3 -> Ok(Honor(Wind("West")))
    [] suit_char = "z" /\ num = 4 -> Ok(Honor(Wind("North")))
    [] suit_char = "z" /\ num = 5 -> Ok(Honor(Dragon("White")))
    [] suit_char = "z" /\ num = 6 -> Ok(Honor(Dragon("Green")))
    [] suit_char = "z" /\ num = 7 -> Ok(Honor(Dragon("Red")))
    [] suit_char = "m" -> Ok(Number(Character(num)))
    [] suit_char = "p" -> Ok(Number(Dot(num)))
    [] suit_char = "s" -> Ok(Number(Bamboo(num)))
    [] OTHER -> Err(InvalidSuit)

build_match(suit_char, num) ==
  CASE suit_char = "z" /\ num = 1 -> Ok(Honor(Wind("East")))
    [] suit_char = "z" /\ num = 2 -> Ok(Honor(Wind("South")))
    [] suit_char = "z" /\ num = 3 -> Ok(Honor(Wind("West")))
    [] suit_char = "z" /\ num = 4 -> Ok(Honor(Wind("North")))
    [] suit_char = "z" /\ num = 5 -> Ok(Honor(Dragon("White")))
    [] suit_char = "z" /\ num = 6 -> Ok(Honor(Dragon("Green")))
    [] suit_char = "z" /\ num = 7 -> Ok(Honor(Dragon("Red")))
    [] suit_char = "z" /\ num \notin 1..7 -> Err(InvalidHonorNumber)
    [] suit_char = "m" -> Ok(Number(Character(num)))
    [] suit_char = "p" -> Ok(Number(Dot(num)))
    [] suit_char = "s" -> Ok(Number(Bamboo(num)))
    [] OTHER -> Err(InvalidSuit)

\* only the too long inputs are turned away by the length check
build_too_long_only(s) ==
  IF Len(s) > 2 THEN Err(WrongLength)
  ELSE
    LET first == chars_next(s) IN
    IF first = None
    THEN Panic("Previous error checking should make first character valid")
    ELSE
      LET digit == to_digit(first.of) IN
      IF digit = None THEN Err(NotANumber)
      ELSE
        LET num == digit.of % (U8Max + 1)
            second == chars_next(Tail(s))
        IN  IF second = None
            THEN Panic("Previous error checking should make second character valid")
            ELSE build_match(second.of, num)

\* the suit character is looked at before the digit
build_suit_first(s) ==
  IF Len(s) # 2 THEN Err(WrongLength)
  ELSE
    LET first == chars_next(s)
        second == chars_next(Tail(s))
    IN
    IF first = None
    THEN Panic("Previous error checking should make first character valid")
    ELSE IF second = None
    THEN Panic("Previous error checking should make second character valid")
    ELSE IF second.of \notin SuitChars THEN Err(InvalidSuit)
    ELSE
      LET digit == to_digit(first.of) IN
      IF digit = None THEN Err(NotANumber)
      ELSE build_match(second.of, digit.of % (U8Max + 1))

\* the early return on a first character that is no digit left out: the
\* expect on the digit fires
build_unchecked_digit(s) ==
  IF Len(s) # 2 THEN Err(WrongLength)
  ELSE
    LET first == chars_next(s) IN
    IF first = None
    THEN Panic("Previous error checking should make first character valid")
    ELSE
      LET digit == to_digit(first.of) IN
      IF digit = None
      THEN Panic("Previous error checking should make first character a number")
      ELSE
        LET num == digit.of % (U8Max + 1)
            second == chars_next(Tail(s))
        IN  IF second = None
            THEN Panic("Previous error checking should make second character valid")
            ELSE build_match(second.of, num)

build(s) ==
  IF Len(s) # 2 THEN Err(WrongLength)
  ELSE
    LET first == chars_next(s) IN
    IF first = None
    THEN Panic("Previous error checking should make first character valid")
    ELSE
      LET digit == to_digit(first.of) IN
      IF digit = None THEN Err(NotANumber)
      ELSE
        LET num == digit.of % (U8Max + 1)
            second == chars_next(Tail(s))
        IN  IF second = None
            THEN Panic("Previous error checking should make second character valid")
            ELSE build_match(second.of, num)

(***************************************************************************)
(* game.rs: PlayerLocation and move_relative.                              *)
(***************************************************************************)
PlayerLocation == {"Hero", "Right", "Across", "Left"}

\* the seats numbered from one
to_int_one_based(player_location) ==
  CASE player_location = "Hero" -> 1
    [] player_location = "Right" -> 2
    [] player_location = "Across" -> 3
    [] player_location = "Left" -> 4

to_int(player_location) ==
  CASE player_location = "Hero" -> 0
    [] player_location = "Right" -> 1
    [] player_location = "Across" -> 2
    [] player_location = "Left" -> 3

\* the arms of 2 and 3 exchanged
move_relative_swapped(self, location) ==
  LET result == (to_int(self) + to_int(location)) % 4 IN
  CASE result = 0 -> "Hero"
    [] result = 1 -> "Right"
    [] result = 2 -> "Left"
    [] result = 3 -> "Across"
    [] OTHER -> "panic: This case is not possible due to the modulo operator"

move_relative(self, location) ==
  LET result == (to_int(self) + to_int(location)) % 4 IN
  CASE result = 0 -> "Hero"
    [] result = 1 -> "Right"
    [] result = 2 -> "Across"
    [] result = 3 -> "Left"
    [] OTHER -> "panic: This case is not possible due to the modulo operator"

(***************************************************************************)
(* game.rs: the game types.  They are plain structs and enums with public  *)
(* fields and no constructor: a value is assembled by a struct literal     *)
(* from any values of the field types.                                     *)
(***************************************************************************)
Seconds(n) == [variant |-> "Seconds", of |-> n]

\* the other draft of the configuration gives four red fives
GameConfig_default_four ==
  [num_players |-> "Four",
   length |-> Some("East"),
   main_thinking_time |-> Some(Seconds(20)),
   delay_thinking_time |-> Some(Seconds(5)),
   red_five |-> Some("Four"),
   hero |-> "player1",
   right |-> "player2",
   across |-> "player3",
   left |-> "player4",
   event |-> None,
   site |-> None,
   date |-> None,
   result |-> None]

\* impl Default for GameConfig
GameConfig_default ==
  [num_players |-> "Four",
   length |-> Some("East"),
   main_thinking_time |-> Some(Seconds(20)),
   delay_thinking_time |-> Some(Seconds(5)),
   red_five |-> Some("Three"),
   hero |-> "player1",
   right |-> "player2",
   across |-> "player3",
   left |-> "player4",
   event |-> None,
   site |-> None,
   date |-> None,
   result |-> None]

\* struct Hand { hand, melds }
Hand(hand, melds) == [hand |-> hand, melds |-> melds]

\* struct ChiiMeld { tiles, chii_tile, source }
ChiiMeld(tiles, chii_tile, source) ==
  [tiles |-> tiles, chii_tile |-> chii_tile, source |-> source]

\* struct PonMeld / OpenKanMeld / AddedOpenKanMeld { tile, source }
PonMeld(t, source) == [tile |-> t, source |-> source]

OpenKanMeld(t, source) == [tile |-> t, source |-> source]

AddedOpenKanMeld(t, source) == [tile |-> t, source |-> source]

\* struct ClosedKanMeld { tile }
ClosedKanMeld(t) == [tile |-> t]

\* enum RoundAction
Draw(t) == [variant |-> "Draw", of |-> t]

Discard(t) == [variant |-> "Discard", of |-> t]

Chii(m) == [variant |-> "Chii", of |-> m]

Pon(m) == [variant |-> "Pon", of |-> m]

ClosedKan(m) == [variant |-> "ClosedKan", of |-> m]

OpenKan(m) == [variant |-> "OpenKan", of |-> m]

AddedOpenKan(m) == [variant |-> "AddedOpenKan", of |-> m]

Richii == [variant |-> "Richii"]

Tsumo(h) == [variant |-> "Tsumo", of |-> h]

Ron(h) == [variant |-> "Ron", of |-> h]

Exhaustive(hands) == [variant |-> "Exhaustive", of |-> hands]

\* struct RoundEvent { subject, action, target }
RoundEvent(subject, action, target) ==
  [subject |-> subject, action |-> action, target |-> target]

\* struct RoundConfig, struct Round, struct Game
RoundConfig ==
  [round_wind |-> "East",
   round_number |-> "One",
   round_repeat |-> 0,
   hero_location |-> "East",
   initial_hero_hand_state |-> Hand(<<>>, <<>>),
   result |-> None,
   dora |-> <<>>,
   ura_dora |-> <<>>]

Round(round_config, game_events) ==
  [round_config |-> round_config, game_events |-> game_events]

Game(game_config, rounds) == [game_config |-> game_config, rounds |-> rounds]

(***************************************************************************)
(* The values of game.rs the model assembles.                              *)
(***************************************************************************)
m3 == Number(Character(3))

m4 == Number(Character(4))

m5 == Number(Character(5))

m6 == Number(Character(6))

p4 == Number(Dot(4))

z1 == Honor(Wind("East"))

\* the tiles: [MahjongTile; 3] of a ChiiMeld
ChiiTiles == {<<m3, m4, m5>>, <<m3, m4, m6>>, <<m3, p4, m5>>, <<z1, z1, z1>>}

ChiiMelds ==
  {ChiiMeld(ts, c, src) : ts \in ChiiTiles, c \in {m4, m6}, src \in PlayerLocation}

MeldTiles == {m5, z1}

PonMelds == {PonMeld(t, src) : t \in MeldTiles, src \in PlayerLocation}

OpenKanMelds == {OpenKanMeld(t, src) : t \in MeldTiles, src \in PlayerLocation}

AddedOpenKanMelds ==
  {AddedOpenKanMeld(t, src) : t \in MeldTiles, src \in PlayerLocation}

ClosedKanMelds == {ClosedKanMeld(t) : t \in MeldTiles}

Hands == {Hand(<<>>, <<>>), Hand(<<m5, m5>>, <<ClosedKan(ClosedKanMeld(z1))>>)}

\* Vec<(PlayerLocation, Hand)>
Reveals ==
  UNION {[1..n -> {<<seat, hand>> : seat \in PlayerLocation, hand \in Hands}]
           : n \in 0..MaxReveals}

RoundActions ==
  {Draw(None)} \cup {Draw(Some(t)) : t \in MeldTiles}
  \cup {Discard(t) : t \in MeldTiles}
  \cup {Chii(m) : m \in ChiiMelds}
  \cup {Pon(m) : m \in PonMelds}
  \cup {ClosedKan(m) : m \in ClosedKanMelds}
  \cup {OpenKan(m) : m \in OpenKanMelds}
  \cup {AddedOpenKan(m) : m \in AddedOpenKanMelds}
  \cup {Richii}
  \cup {Tsumo(h) : h \in Hands}
  \cup {Ron(h) : h \in Hands}
  \cup {Exhaustive(r) : r \in Reveals}

Targets == {None} \cup {Some(seat) : seat \in PlayerLocation}

RoundEvents ==
  {RoundEvent(subject, action, target) :
     subject \in PlayerLocation, action \in RoundActions, target \in Targets}

\* the events recorded in the Round of the model
TranscriptEvents ==
  {RoundEvent("Left", Draw(None), None),
   RoundEvent("Left", Discard(m5), None),
   RoundEvent("Hero", Chii(ChiiMeld(<<m3, m4, m6>>, m4, "Left")), Some("Left")),
   RoundEvent("Hero", Pon(PonMeld(m5, "Hero")), None)}

(***************************************************************************)
(* #[derive(PartialEq)] on RoundAction and on Option: two values are equal *)
(* when they are of the same variant and their payloads are equal.         *)
(***************************************************************************)
Option_eq(x, y) ==
  IF x.variant # y.variant THEN FALSE
  ELSE IF x.variant = "None" THEN TRUE
  ELSE x.of = y.of

\* only the discriminants are compared
RoundAction_eq_discriminant(a, b) == a.variant = b.variant

RoundAction_eq(a, b) ==
  IF a.variant # b.variant THEN FALSE
  ELSE CASE a.variant = "Richii" -> TRUE
         [] a.variant = "Draw" -> Option_eq(a.of, b.of)
         [] OTHER -> a.of = b.of

\* the Draw actions that are compared: the unknown draw and the draws of the
\* tiles of the tile set
DrawActions ==
  {Draw(None)}
  \cup {Draw(Some(Honor(t))) : t \in HonorTile}
  \cup {Draw(Some(Number(Character(n)))) : n \in 0..9}
  \cup {Draw(Some(Number(Dot(n)))) : n \in 0..9}
  \cup {Draw(Some(Number(Bamboo(n)))) : n \in 0..9}

\* impl fmt::Display for ClosedKanMeld: write!(f, "")
ClosedKanMeld_fmt(m) == <<>>

(***************************************************************************)
(* Vec<T>, the type of Round::game_events and Game::rounds.  Both fields   *)
(* are pub, so the holder of a Round or a Game calls the methods of Vec on *)
(* them.  Indices count from 1 here and from 0 in Rust.                    *)
(***************************************************************************)
Vec_push(v, x) == Append(v, x)

Vec_remove(v, i) == SubSeq(v, 1, i - 1) \o SubSeq(v, i + 1, Len(v))

Vec_swap(v, i, j) == [v EXCEPT ![i] = v[j], ![j] = v[i]]

(***************************************************************************)
(* Values of the variables while the operation they belong to has not      *)
(* run.                                                                    *)
(***************************************************************************)
NoTile == [variant |-> "NoTile"]

NoResult == [variant |-> "NoResult"]

NoSeats == <<>>

NoMoves == [variant |-> "NoMoves"]

NoGame == [variant |-> "NoGame"]

NoRound == [variant |-> "NoRound"]

NoEvent == [variant |-> "NoEvent"]

NoActions == <<>>

NoMeld == [variant |-> "NoMeld"]

\* no value of game.rs has been made
GameIdle ==
  /\ game = NoGame /\ round = NoRound /\ event = NoEvent
  /\ actions = NoActions /\ equal = FALSE /\ meld = NoMeld

\* no call of the tile codec or of the seat algebra has been made
TileIdle ==
  /\ tile_string = <<>> /\ built = NoResult /\ tile = NoTile /\ text = <<>>
  /\ seats = NoSeats /\ moved = NoMoves /\ visited = <<>>

(***************************************************************************)
(* Initial states: one call of the library is about to be made, on an      *)
(* input drawn from the bounded input sets.                                *)
(*   pc = "build"    tile::build(tile_string) is about to be called        *)
(*   pc = "display"  tile.to_string() is about to be called                *)
(*   pc = "seats"    move_relative is about to be applied to seats a, b, c *)
(*   pc = "walk"     a walk round the table starts at Hero                 *)
(*   pc = "config"   a Game and the Round to record are about to be made   *)
(*   pc = "event"    a RoundEvent is about to be assembled                 *)
(*   pc = "compare"  two Draw actions are about to be compared             *)
(*   pc = "meld"     a ClosedKanMeld is about to be displayed              *)
(***************************************************************************)
InitBuild ==
  /\ GameIdle
  /\ pc = "build"
  /\ tile_string \in Strings
  /\ built = NoResult /\ tile = NoTile /\ text = <<>>
  /\ seats = NoSeats /\ moved = NoMoves /\ visited = <<>>

InitDisplay ==
  /\ GameIdle
  /\ pc = "display"
  /\ tile \in MahjongTile
  /\ tile_string = <<>> /\ built = NoResult /\ text = <<>>
  /\ seats = NoSeats /\ moved = NoMoves /\ visited = <<>>

InitSeats ==
  /\ GameIdle
  /\ pc = "seats"
  /\ seats \in [1..3 -> PlayerLocation]
  /\ moved = NoMoves /\ visited = <<>>
  /\ tile_string = <<>> /\ built = NoResult /\ tile = NoTile /\ text = <<>>

InitWalk ==
  /\ GameIdle
  /\ pc = "walk"
  /\ visited = <<"Hero">>
  /\ seats = NoSeats /\ moved = NoMoves
  /\ tile_string = <<>> /\ built = NoResult /\ tile = NoTile /\ text = <<>>

\* a Game is about to be made with the default configuration
InitConfig ==
  /\ pc = "config"
  /\ GameIdle
  /\ TileIdle

\* a RoundEvent is about to be assembled
InitEvent ==
  /\ pc = "event"
  /\ GameIdle
  /\ TileIdle

\* two Draw actions are about to be compared with ==
InitCompare ==
  /\ pc = "compare"
  /\ actions \in DrawActions \X DrawActions
  /\ equal = FALSE
  /\ game = NoGame /\ round = NoRound /\ event = NoEvent /\ meld = NoMeld
  /\ TileIdle

\* a ClosedKanMeld is about to be displayed
InitMeld ==
  /\ pc = "meld"
  /\ meld \in ClosedKanMelds
  /\ game = NoGame /\ round = NoRound /\ event = NoEvent
  /\ actions = NoActions /\ equal = FALSE
  /\ TileIdle

Init ==
  \/ InitBuild \/ InitDisplay \/ InitSeats \/ InitWalk
  \/ InitConfig \/ InitEvent \/ InitCompare \/ InitMeld

(***************************************************************************)
(* Actions.                                                                *)
(***************************************************************************)
\* tile::build(tile_string)
Build ==
  /\ pc = "build"
  /\ built' = build(tile_string)
  /\ pc' = "built"
  /\ UNCHANGED <<tile_string, tile, text, seats, moved, visited>>
  /\ UNCHANGED gameVars

\* the tile build returned is displayed: build(s).unwrap().to_string()
DisplayBuilt ==
  /\ pc = "built"
  /\ built.variant = "Ok"
  /\ tile' = built.of
  /\ text' = fmt(built.of)
  /\ pc' = "built_displayed"
  /\ UNCHANGED <<tile_string, built, seats, moved, visited>>
  /\ UNCHANGED gameVars

\* tile.to_string()
Display ==
  /\ pc = "display"
  /\ text' = fmt(tile)
  /\ pc' = "displayed"
  /\ UNCHANGED <<tile_string, built, tile, seats, moved, visited>>
  /\ UNCHANGED gameVars

\* the displayed text is parsed back: tile::build(&tile.to_string())
BuildDisplayed ==
  /\ pc = "displayed"
  /\ tile_string' = text
  /\ built' = build(text)
  /\ pc' = "displayed_built"
  /\ UNCHANGED <<tile, text, seats, moved, visited>>
  /\ UNCHANGED gameVars

\* move_relative applied to the seats a, b, c in the orders the group laws
\* compare
MoveRelative ==
  /\ pc = "seats"
  /\ LET a == seats[1]
         b == seats[2]
         c == seats[3]
     IN moved' = [a_hero |-> move_relative(a, "Hero"),
                  hero_a |-> move_relative("Hero", a),
                  a_b    |-> move_relative(a, b),
                  b_a    |-> move_relative(b, a),
                  ab_c   |-> move_relative(move_relative(a, b), c),
                  a_bc   |-> move_relative(a, move_relative(b, c))]
  /\ pc' = "moved"
  /\ UNCHANGED <<tile_string, built, tile, text, seats, visited>>
  /\ UNCHANGED gameVars

\* player = player.move_relative(&Right)
MoveRight ==
  /\ pc = "walk"
  /\ Len(visited) <= MaxSteps
  /\ visited' = Append(visited, move_relative(visited[Len(visited)], "Right"))
  /\ UNCHANGED <<pc, tile_string, built, tile, text, seats, moved>>
  /\ UNCHANGED gameVars

\* Game { game_config: GameConfig::default(), rounds: vec![] } and the Round
\* that is going to be recorded
Default ==
  /\ pc = "config"
  /\ game' = Game(GameConfig_default, <<>>)
  /\ round' = Round(RoundConfig, <<>>)
  /\ pc' = "round"
  /\ UNCHANGED <<event, actions, equal, meld>>
  /\ UNCHANGED codecVars
  /\ UNCHANGED seatVars

\* round.game_events.push(e)
PushEvent(e) ==
  /\ pc = "round"
  /\ Len(round.game_events) < MaxEvents
  /\ round' = [round EXCEPT !.game_events = Vec_push(@, e)]
  /\ UNCHANGED <<pc, game, event, actions, equal, meld>>
  /\ UNCHANGED codecVars
  /\ UNCHANGED seatVars

\* round.game_events.remove(i)
RemoveEvent(i) ==
  /\ pc = "round"
  /\ i \in 1..Len(round.game_events)
  /\ round' = [round EXCEPT !.game_events = Vec_remove(@, i)]
  /\ UNCHANGED <<pc, game, event, actions, equal, meld>>
  /\ UNCHANGED codecVars
  /\ UNCHANGED seatVars

\* round.game_events.swap(i, j)
SwapEvents(i, j) ==
  /\ pc = "round"
  /\ i \in 1..Len(round.game_events)
  /\ j \in 1..Len(round.game_events)
  /\ i < j
  /\ round' = [round EXCEPT !.game_events = Vec_swap(@, i, j)]
  /\ UNCHANGED <<pc, game, event, actions, equal, meld>>
  /\ UNCHANGED codecVars
  /\ UNCHANGED seatVars

\* game.rounds.push(round): the Round is moved into the Game
PushRound ==
  /\ pc = "round"
  /\ game' = [game EXCEPT !.rounds = Vec_push(@, round)]
  /\ round' = NoRound
  /\ pc' = "round_pushed"
  /\ UNCHANGED <<event, actions, equal, meld>>
  /\ UNCHANGED codecVars
  /\ UNCHANGED seatVars

\* RoundEvent { subject, action, target }: any values of the field types
NewEvent ==
  /\ pc = "event"
  /\ \E e \in RoundEvents : event' = e
  /\ pc' = "event_built"
  /\ UNCHANGED <<game, round, actions, equal, meld>>
  /\ UNCHANGED codecVars
  /\ UNCHANGED seatVars

\* actions.0 == actions.1
Compare ==
  /\ pc = "compare"
  /\ equal' = RoundAction_eq(actions[1], actions[2])
  /\ pc' = "compared"
  /\ UNCHANGED <<game, round, event, actions, meld>>
  /\ UNCHANGED codecVars
  /\ UNCHANGED seatVars

\* meld.to_string()
DisplayMeld ==
  /\ pc = "meld"
  /\ text' = ClosedKanMeld_fmt(meld)
  /\ pc' = "meld_displayed"
  /\ UNCHANGED <<tile_string, built, tile>>
  /\ UNCHANGED seatVars
  /\ UNCHANGED gameVars

Next ==
  \/ Build \/ DisplayBuilt \/ Display \/ BuildDisplayed
  \/ MoveRelative \/ MoveRight
  \/ Default
  \/ \E e \in TranscriptEvents : PushEvent(e)
  \/ \E i \in 1..MaxEvents : RemoveEvent(i)
  \/ \E i \in 1..MaxEvents : \E j \in 1..MaxEvents : SwapEvents(i, j)
  \/ PushRound
  \/ NewEvent
  \/ Compare
  \/ DisplayMeld

Spec == Init /\ [][Next]_vars

(***************************************************************************)
(* Properties.                                                             *)
(***************************************************************************)
\* the decimal digits '0'..'9' and the value of each
DecimalDigit == {"0", "1", "2", "3", "4", "5", "6", "7", "8", "9"}

DigitOf(d) == <<"0", "1", "2", "3", "4", "5", "6", "7", "8", "9">>[d + 1]

\* the honor table: digit 1..7 under 'z'
HonorTable ==
  <<Honor(Wind("East")), Honor(Wind("South")), Honor(Wind("West")),
    Honor(Wind("North")), Honor(Dragon("White")), Honor(Dragon("Green")),
    Honor(Dragon("Red"))>>

\* a tile of the tile set: an honor, or a number tile of rank 0..9
InTileSet(t) == t.variant = "Honor" \/ t.of.of \in 0..9

\* build has been called on tile_string and its outcome is in built
BuildReturned == pc \in {"built", "built_displayed", "displayed_built"}

\* C1: decoding the encoding of a tile of rank 0..9 in m/p/s, or of one of
\* the 7 honors, succeeds and returns a tile equal to the original.
C1_DecodeAfterEncode ==
  (pc = "displayed_built" /\ InTileSet(tile)) => built = Ok(tile)

C1_Witness ==
  /\ pc = "displayed_built"
  /\ tile = Honor(Wind("North"))
  /\ tile_string = <<"4", "z">>
  /\ built = Ok(Honor(Wind("North")))

\* C2: for every string build accepts, displaying the returned tile gives
\* the string back, and no other string is built into the same tile.
C2_EncodeAfterDecode ==
  /\ pc = "built_displayed" => text = tile_string
  /\ (pc = "built" /\ built.variant = "Ok") =>
       \A s \in Strings : build(s) = built => s = tile_string

C2_Witness ==
  /\ pc = "built_displayed"
  /\ tile_string = <<"0", "p">>
  /\ tile = Number(Dot(0))
  /\ text = <<"0", "p">>

C4_WrongLength ==
  (BuildReturned /\ Len(tile_string) # 2) => built = Err("Invalid number of characters")

C4_Witness ==
  /\ pc = "built"
  /\ tile_string = <<"1", "z", "z">>
  /\ built = Err("Invalid number of characters")

\* C5: a 2-character input whose first character is not a decimal digit gets
\* the not-a-number error, whatever the second character is.
C5_NotANumber ==
  (BuildReturned /\ Len(tile_string) = 2 /\ tile_string[1] \notin DecimalDigit)
    => built = Err("First character is not a number")

C5_Witness ==
  /\ pc = "built"
  /\ tile_string = <<"g", "z">>
  /\ built = Err("First character is not a number")

\* C6: the invalid-honor-number error is returned for 0z, 8z and 9z, and for
\* no other input.
C6_InvalidHonorNumber ==
  BuildReturned =>
    (built = Err("Invalid number for tile")
       <=> tile_string \in {<<"0", "z">>, <<"8", "z">>, <<"9", "z">>})

C6_Witness ==
  /\ pc = "built"
  /\ tile_string = <<"8", "z">>
  /\ built = Err("Invalid number for tile")

\* C7: a 2-character input of a decimal digit and a character other than
\* m, p, s, z gets the invalid-suit error, for every digit; the four error
\* kinds are pairwise distinct.
C7_InvalidSuit ==
  /\ (/\ BuildReturned
      /\ Len(tile_string) = 2
      /\ tile_string[1] \in DecimalDigit
      /\ tile_string[2] \notin {"m", "p", "s", "z"})
       => built = Err("Invalid suit")
  /\ Cardinality({WrongLength, NotANumber, InvalidHonorNumber, InvalidSuit}) = 4

C7_Witness ==
  /\ pc = "built"
  /\ tile_string = <<"9", "a">>
  /\ built = Err("Invalid suit")

\* C8: for all seats a, b, c: combine(a, Hero) = a = combine(Hero, a),
\* combine(a, b) = combine(b, a) and
\* combine(combine(a, b), c) = combine(a, combine(b, c)).
C8_SeatGroupLaws ==
  pc = "moved" =>
    /\ moved.a_hero = seats[1]
    /\ moved.hero_a = seats[1]
    /\ moved.a_b = moved.b_a
    /\ moved.ab_c = moved.a_bc

C8_Witness ==
  /\ pc = "moved"
  /\ seats = <<"Left", "Right", "Across">>
  /\ moved.a_hero = "Left"
  /\ moved.a_b = "Hero"
  /\ moved.ab_c = "Across"

\* the embedding Hero=0, Right=1, Across=2, Left=3, as a sequence
SeatOrder == <<"Hero", "Right", "Across", "Left">>

Embed(seat) == (CHOOSE i \in 1..4 : SeatOrder[i] = seat) - 1

\* C9: for each pair (a, b) of seats move_relative returns the seat embedded
\* as (embed(a) + embed(b)) mod 4 and never takes the panic branch; a walk
\* of Right steps from Hero visits Hero, Right, Across, Left, Hero, ...
C9_SeatAdditionMod4 ==
  /\ pc = "moved" =>
       /\ moved.a_b = SeatOrder[((Embed(seats[1]) + Embed(seats[2])) % 4) + 1]
       /\ \A f \in DOMAIN moved : moved[f] \in PlayerLocation
  /\ pc = "walk" =>
       \A i \in 1..Len(visited) : visited[i] = SeatOrder[((i - 1) % 4) + 1]

C9_Witness ==
  /\ pc = "moved"
  /\ seats[1] = "Right"
  /\ seats[2] = "Across"
  /\ moved.a_b = "Left"

\* C10: for every tile, Display writes exactly two characters: the decimal
\* digit of the tile's number (the stored rank of a Number tile, the ordinal
\* of an Honor tile) followed by its suit character.
C10_EncodeTwoCharacters ==
  pc = "displayed" =>
    /\ Len(text) = 2
    /\ \E d \in 0..9 :
         /\ d = (IF tile.variant = "Number" THEN tile.of.of
                 ELSE CHOOSE i \in 1..7 : HonorTable[i] = tile)
         /\ text[1] = DigitOf(d)
    /\ text[Len(text)] =
         (CASE tile.variant = "Honor" -> "z"
            [] tile.of.variant = "Character" -> "m"
            [] tile.of.variant = "Dot" -> "p"
            [] tile.of.variant = "Bamboo" -> "s")

\* the RoundEvents there are: the one assembled last and those of the Round
\* being recorded and of the Rounds of the Game
Events(r) == {r.game_events[i] : i \in 1..Len(r.game_events)}

RecordedEvents ==
  (IF event = NoEvent THEN {} ELSE {event})
  \cup (IF round = NoRound THEN {} ELSE Events(round))
  \cup (IF game = NoGame THEN {}
        ELSE UNION {Events(game.rounds[i]) : i \in 1..Len(game.rounds)})

\* the rank a number tile counts as: 0 is the red five
RankOf(t) == IF t.of.of = 0 THEN 5 ELSE t.of.of

\* three consecutive ranks of one number suit, the chii tile one of the three
WellFormedChii(m) ==
  /\ \A i \in 1..3 : m.tiles[i].variant = "Number"
  /\ \A i \in 1..3 : m.tiles[i].of.variant = m.tiles[1].of.variant
  /\ \E r \in 1..7 : {RankOf(m.tiles[i]) : i \in 1..3} = {r, r + 1, r + 2}
  /\ \E i \in 1..3 : m.chii_tile = m.tiles[i]

\* C11: every Chii of an event or a transcript is well-formed: its tiles are
\* three consecutive ranks of one number suit and its chii tile is one of
\* them; an ill-formed ChiiMeld is rejected when it is assembled.
C11_ChiiWellFormed ==
  \A e \in RecordedEvents :
    e.action.variant = "Chii" => WellFormedChii(e.action.of)

\* C12: in every event whose action is Chii, Pon, OpenKan or AddedOpenKan
\* the source seat of the meld differs from the subject of the event; only
\* a ClosedKan carries no source.
C12_SourceDiffersFromSubject ==
  \A e \in RecordedEvents :
    /\ e.action.variant \in {"Chii", "Pon", "OpenKan", "AddedOpenKan"}
         => /\ "source" \in DOMAIN e.action.of
            /\ e.action.of.source # e.subject
    /\ e.action.variant = "ClosedKan" => "source" \notin DOMAIN e.action.of

\* C13: an event of Chii, Pon, OpenKan, AddedOpenKan or Ron has a target, an
\* event of Draw, Discard, ClosedKan, Richii, Tsumo or Exhaustive has none.
C13_TargetMatchesAction ==
  \A e \in RecordedEvents :
    /\ e.action.variant \in {"Chii", "Pon", "OpenKan", "AddedOpenKan", "Ron"}
         => e.target.variant = "Some"
    /\ e.action.variant \in
         {"Draw", "Discard", "ClosedKan", "Richii", "Tsumo", "Exhaustive"}
         => e.target.variant = "None"

IsPrefix(a, b) == Len(a) <= Len(b) /\ SubSeq(b, 1, Len(a)) = a

\* C14: every step leaves the game_events of the Round, and the rounds of the
\* Game, a prefix of what they are afterwards: events and rounds are only
\* appended, never reordered, removed or altered.
C14_AppendOnly ==
  [][/\ (round # NoRound /\ round' # NoRound)
          => IsPrefix(round.game_events, round'.game_events)
     /\ (game # NoGame /\ game' # NoGame)
          => IsPrefix(game.rounds, game'.rounds)]_vars

\* C15: GameConfig::default() is 4 players, length East, 20 and 5 seconds of
\* thinking time, 3 red fives, the names player1..player4, and no event,
\* site, date or result.
C15_GameConfigDefault ==
  game # NoGame =>
    /\ game.game_config.num_players = "Four"
    /\ game.game_config.length = [variant |-> "Some", of |-> "East"]
    /\ game.game_config.main_thinking_time
         = [variant |-> "Some", of |-> [variant |-> "Seconds", of |-> 20]]
    /\ game.game_config.delay_thinking_time
         = [variant |-> "Some", of |-> [variant |-> "Seconds", of |-> 5]]
    /\ game.game_config.red_five = [variant |-> "Some", of |-> "Three"]
    /\ game.game_config.hero = "player1"
    /\ game.game_config.right = "player2"
    /\ game.game_config.across = "player3"
    /\ game.game_config.left = "player4"
    /\ game.game_config.event.variant = "None"
    /\ game.game_config.site.variant = "None"
    /\ game.game_config.date.variant = "None"
    /\ game.game_config.result.variant = "None"

C15_Witness ==
  /\ pc = "round"
  /\ game.rounds = <<>>
  /\ game.game_config.red_five.of = "Three"
  /\ game.game_config.main_thinking_time.of.of = 20

\* C16: build returns, for every input, a tile or one of the four errors and
\* never panics; the length is checked first, then the first character,
\* then the honor number and the suit.
C16_BuildNeverAborts ==
  BuildReturned =>
    /\ built.variant \in {"Ok", "Err"}
    /\ built.variant = "Ok" => built.of \in MahjongTile
    /\ built.variant = "Err" =>
         built.of \in {"Invalid number of characters",
                       "First character is not a number",
                       "Invalid number for tile", "Invalid suit"}
    /\ (built = Err("Invalid number of characters")) <=> (Len(tile_string) # 2)
    /\ (built = Err("First character is not a number"))
         <=> (Len(tile_string) = 2 /\ tile_string[1] \notin DecimalDigit)

C16_Witness ==
  /\ pc = "built"
  /\ tile_string = <<"$", "$", "$">>
  /\ built.variant = "Err"

\* C17: the rank of every Number tile is in 0..9: of a tile build returned
\* and of every Number tile made from the tile types.
C17_RankInRange ==
  /\ tile.variant = "Number" => tile.of.of \in 0..9
  /\ (built.variant = "Ok" /\ built.of.variant = "Number")
       => built.of.of.of \in 0..9

\* C18: in every Exhaustive action each seat has at most one (seat, hand)
\* entry, and no entry has an empty hand.
C18_ExhaustiveIsMapping ==
  \A e \in RecordedEvents :
    e.action.variant = "Exhaustive" =>
      LET reveals == e.action.of IN
      /\ \A i, j \in 1..Len(reveals) : i # j => reveals[i][1] # reveals[j][1]
      /\ \A i \in 1..Len(reveals) :
           reveals[i][2] # [hand |-> <<>>, melds |-> <<>>]

\* the equality of two compared Draw actions
C19_DrawEquality ==
  pc = "compared" =>
    LET a == actions[1].of
        b == actions[2].of
    IN  /\ (a.variant = "None" /\ b.variant = "Some") => ~equal
        /\ (a.variant = "Some" /\ b.variant = "None") => ~equal
        /\ (a.variant = "Some" /\ b.variant = "Some") => (equal <=> a.of = b.of)

\* a step keeps every Draw action unknown or concrete, as it was
C19_DrawKept ==
  actions # NoActions =>
    /\ Len(actions') = Len(actions)
    /\ \A i \in 1..Len(actions) :
         /\ actions'[i].variant = "Draw"
         /\ actions'[i].of.variant = actions[i].of.variant

\* C19: a Draw of the unknown tile is never equal to a Draw of a concrete
\* tile, two Draws of concrete tiles are equal exactly when the tiles are
\* equal, and no step turns a concrete draw into an unknown one or back.
C19_UnknownDrawDistinct == [](C19_DrawEquality) /\ [][C19_DrawKept]_vars

C19_Witness ==
  /\ pc = "compared"
  /\ actions[1] = Draw(None)
  /\ actions[2] = Draw(Some(m5))
  /\ equal = FALSE

\* C20: the Display of a ClosedKanMeld is the concealed-kan notation of its
\* tile, "--0m5m--" for Character(5), and never the empty string.
C20_ClosedKanMeldDisplay ==
  pc = "meld_displayed" =>
    /\ text # <<>>
    /\ meld = [tile |-> Number(Character(5))]
         => text = <<"-", "-", "0", "m", "5", "m", "-", "-">>

====
